---------------------------- MODULE Spec2Model ----------------------------
(***************************************************************************)
(* Open The Port: the run-state engine (state manager, cooldown manager,  *)
(* selection engine, event engine) and the zustand store that drives it   *)
(* (startRun, pickAction, tick).                                           *)
(*                                                                         *)
(* Numbers.  Times are milliseconds, durations seconds, as in the code.    *)
(* Math.random() is a value k / RandDenom with k in 0 .. RandDenom-1; the  *)
(* operators that draw it take k as a parameter.  An environment modifier  *)
(* 0.8 + rnd * 0.4 is kept as the integer 8*RandDenom + 4*k, that is in    *)
(* units of 1 / (10*RandDenom), and so is every weight computed from it;   *)
(* weightedRandomPick compares roll = rnd * total with the weights after   *)
(* multiplying both by RandDenom, which changes no comparison.             *)
(***************************************************************************)
EXTENDS Integers, Sequences, FiniteSets, TLC

VARIABLES
    phase,         \* store.phase: "idle" | "playing" | "over"
    allEvents,     \* store.allEvents: the catalog of the run
    gameState,     \* store.gameState
    cooldowns,     \* store.cooldowns: [events, actions], id -> expiry (ms)
    envModifiers,  \* store.envModifiers: event id -> modifier
    currentEvent,  \* store.currentEvent: an event or Null
    outcome,       \* store.outcome: a RunOutcome or NoOutcome
    log,           \* store.log: newest entry first
    now,           \* Date.now()
    fetching,      \* startRun calls that are awaiting fetch('/api/events')
    picks,         \* pickAction calls made so far
    fnArg,         \* the arguments of an engine function called on its own
    fnRes          \* what that call returned (Null before the call)

vars == <<phase, allEvents, gameState, cooldowns, envModifiers, currentEvent,
          outcome, log, now, fetching, picks, fnArg, fnRes>>

fn == <<fnArg, fnRes>>

store == <<phase, allEvents, gameState, cooldowns, envModifiers, currentEvent,
           outcome, log>>

-----------------------------------------------------------------------------
(* Bounds of the model *)

\* Math.random() takes the values 0/RandDenom .. (RandDenom-1)/RandDenom.
RandDenom == 3

\* The clock runs from 0 to MaxClock intervals of TickMs milliseconds.
MaxClock == 2

\* pickAction is called at most MaxPicks times.
MaxPicks == 2

\* At most MaxFetch startRun calls await the catalog at the same time.
MaxFetch == 2

(* Program constants *)

\* setInterval(tick, 1000)
TickMs == 1000

\* log: [...].slice(0, 12)
LogCap == 12

\* now + durationSec * 1000
MsPerSec == 1000

\* clampState: Math.min(100, ...)
StatMax == 100

\* the value that stands for `null` where an event is expected
Null == [null |-> TRUE]

\* the value that stands for `null` where a RunOutcome is expected
NoOutcome == "null"

\* an empty Record<string, number>
EmptyMap == [id \in {} |-> 0]

Min(a, b) == IF a <= b THEN a ELSE b
Max(a, b) == IF a >= b THEN a ELSE b

-----------------------------------------------------------------------------
(* shared types *)

Fields == {"timeLeft", "stress", "privilege", "bureaucracy", "security",
           "influence", "score"}

Ops == {">", "<", ">=", "<=", "==", "!="}

-----------------------------------------------------------------------------
(* engine/stateManager.ts *)

INITIAL_STATE ==
    [timeLeft |-> 180, stress |-> 20, privilege |-> 1, bureaucracy |-> 20,
     security |-> 20, influence |-> 0, score |-> 0]

\* { ...INITIAL_STATE, ...overrides }
initState(overrides) ==
    [f \in Fields |-> IF f \in DOMAIN overrides THEN overrides[f]
                      ELSE INITIAL_STATE[f]]

RECURSIVE applyEffects(_, _)
applyEffects(state, effects) ==
    IF effects = <<>> THEN state
    ELSE applyEffects(
             [state EXCEPT ![Head(effects).target] = @ + Head(effects).delta],
             Tail(effects))

\* clampState with the upper bound of stress and the floor of timeLeft lost
clampState_noBounds(state) ==
    [state EXCEPT
        !.stress      = Max(0, @),
        !.bureaucracy = Min(StatMax, Max(0, @)),
        !.security    = Min(StatMax, Max(0, @)),
        !.privilege   = Max(0, @)]

clampState(state) ==
    [state EXCEPT
        !.stress      = Min(StatMax, Max(0, @)),
        !.bureaucracy = Min(StatMax, Max(0, @)),
        !.security    = Min(StatMax, Max(0, @)),
        !.privilege   = Max(0, @),
        !.timeLeft    = Max(0, @)]

RECURSIVE applyAndClamp_perEffect(_, _)
\* applyAndClamp clamping after every single effect
applyAndClamp_perEffect(state, effects) ==
    IF effects = <<>> THEN clampState(state)
    ELSE applyAndClamp_perEffect(
             clampState([state EXCEPT ![Head(effects).target] =
                                          @ + Head(effects).delta]),
             Tail(effects))

applyAndClamp(state, effects) == clampState(applyEffects(state, effects))

\* checkLoseCondition testing stress before time
checkLoseCondition_stressFirst(state) ==
    IF state.stress >= StatMax THEN "stress"
    ELSE IF state.timeLeft <= 0 THEN "time"
    ELSE IF state.privilege <= 0 THEN "privilege"
    ELSE NoOutcome

\* checkLoseCondition without its stress test
checkLoseCondition_noStress(state) ==
    IF state.timeLeft <= 0 THEN "time"
    ELSE IF state.privilege <= 0 THEN "privilege"
    ELSE NoOutcome

checkLoseCondition(state) ==
    IF state.timeLeft <= 0 THEN "time"
    ELSE IF state.stress >= StatMax THEN "stress"
    ELSE IF state.privilege <= 0 THEN "privilege"
    ELSE NoOutcome

-----------------------------------------------------------------------------
(* engine/cooldownManager.ts *)

emptyCooldowns == [events |-> EmptyMap, actions |-> EmptyMap]

\* startEventCooldown without the spread of state.events
startEventCooldown_reset(state, eventId, durationSec, t) ==
    [state EXCEPT !.events = (eventId :> (t + durationSec * MsPerSec))]

startEventCooldown(state, eventId, durationSec, t) ==
    [state EXCEPT !.events = (eventId :> (t + durationSec * MsPerSec)) @@ @]

\* startActionCooldown adding the seconds to the millisecond clock unconverted
startActionCooldown_noMs(state, actionId, durationSec, t) ==
    [state EXCEPT !.actions = (actionId :> (t + durationSec)) @@ @]

startActionCooldown(state, actionId, durationSec, t) ==
    [state EXCEPT !.actions = (actionId :> (t + durationSec * MsPerSec)) @@ @]

\* isEventOnCooldown with now <= expiry
isEventOnCooldown_inclusive(state, eventId, t) ==
    eventId \in DOMAIN state.events /\ t <= state.events[eventId]

isEventOnCooldown(state, eventId, t) ==
    eventId \in DOMAIN state.events /\ t < state.events[eventId]

isActionOnCooldown(state, actionId, t) ==
    actionId \in DOMAIN state.actions /\ t < state.actions[actionId]

\* getActionCooldownRemaining returning milliseconds
getActionCooldownRemaining_ms(state, actionId, t) ==
    IF actionId \notin DOMAIN state.actions \/ t >= state.actions[actionId]
    THEN [num |-> 0, den |-> 1]
    ELSE [num |-> state.actions[actionId] - t, den |-> 1]

\* the number returned is num / den: 0, or (expiry - now) / 1000
getEventCooldownRemaining(state, eventId, t) ==
    IF eventId \notin DOMAIN state.events \/ t >= state.events[eventId]
    THEN [num |-> 0, den |-> 1]
    ELSE [num |-> state.events[eventId] - t, den |-> MsPerSec]

getActionCooldownRemaining(state, actionId, t) ==
    IF actionId \notin DOMAIN state.actions \/ t >= state.actions[actionId]
    THEN [num |-> 0, den |-> 1]
    ELSE [num |-> state.actions[actionId] - t, den |-> MsPerSec]

-----------------------------------------------------------------------------
(* engine/selectionEngine.ts *)

\* evaluateCondition with the strict and the inclusive comparisons swapped
evaluateCondition_swapped(state, condition) ==
    LET val == state[condition.param] IN
    CASE condition.op = ">"  -> val >= condition.value
      [] condition.op = "<"  -> val <= condition.value
      [] condition.op = ">=" -> val >  condition.value
      [] condition.op = "<=" -> val <  condition.value
      [] condition.op = "==" -> val =  condition.value
      [] condition.op = "!=" -> val #  condition.value

evaluateCondition(state, condition) ==
    LET val == state[condition.param] IN
    CASE condition.op = ">"  -> val >  condition.value
      [] condition.op = "<"  -> val <  condition.value
      [] condition.op = ">=" -> val >= condition.value
      [] condition.op = "<=" -> val <= condition.value
      [] condition.op = "==" -> val =  condition.value
      [] condition.op = "!=" -> val #  condition.value

evaluateConditions(state, conditions) ==
    \A i \in 1..Len(conditions) : evaluateCondition(state, conditions[i])

\* envModifiers[event.id] ?? 1.0, in units of 1 / (10*RandDenom)
envModifierOf(event, modifiers) ==
    IF event.id \in DOMAIN modifiers THEN modifiers[event.id]
    ELSE 10 * RandDenom

\* stateModifier = 1.0
computeWeight(event, state, modifiers) ==
    event.baseWeight * 1 * envModifierOf(event, modifiers)

\* modifiers[event.id] = 0.8 + Math.random() * 0.4, one draw per event in
\* catalog order; rnd[i] is the numerator of the i-th draw.
generateEnvModifiers(events, rnd) ==
    [id \in {events[i].id : i \in 1..Len(events)} |->
        LET last == CHOOSE i \in 1..Len(events) :
                        /\ events[i].id = id
                        /\ \A j \in (i+1)..Len(events) : events[j].id # id
        IN 8 * RandDenom + 4 * rnd[last]]

RECURSIVE SumClamped(_)
\* weights.reduce((sum, w) => sum + Math.max(0, w), 0)
SumClamped(weights) ==
    IF weights = <<>> THEN 0
    ELSE Max(0, Head(weights)) + SumClamped(Tail(weights))

RECURSIVE pickFallback(_, _, _)
\* for (i = items.length - 1; i >= 0; i--) if (weights[i] > 0) return items[i]
pickFallback(items, weights, i) ==
    IF i < 1 THEN Null
    ELSE IF weights[i] > 0 THEN items[i]
    ELSE pickFallback(items, weights, i - 1)

RECURSIVE pickScan_unclamped(_, _, _, _)
\* pickScan subtracting the weight as given, a negative one included
pickScan_unclamped(items, weights, i, roll) ==
    IF i > Len(items) THEN pickFallback(items, weights, Len(items))
    ELSE LET r == roll - RandDenom * weights[i] IN
         IF r <= 0 THEN items[i]
         ELSE pickScan_unclamped(items, weights, i + 1, r)

RECURSIVE pickScan_strict(_, _, _, _)
\* pickScan stopping at roll < 0
pickScan_strict(items, weights, i, roll) ==
    IF i > Len(items) THEN pickFallback(items, weights, Len(items))
    ELSE LET r == roll - RandDenom * Max(0, weights[i]) IN
         IF r < 0 THEN items[i]
         ELSE pickScan_strict(items, weights, i + 1, r)

RECURSIVE pickScan(_, _, _, _)
\* for (i = 0; i < items.length; i++) { roll -= max(0, w); if (roll <= 0) ... }
\* roll is RandDenom times the code's roll.
pickScan(items, weights, i, roll) ==
    IF i > Len(items) THEN pickFallback(items, weights, Len(items))
    ELSE LET r == roll - RandDenom * Max(0, weights[i]) IN
         IF r <= 0 THEN items[i]
         ELSE pickScan(items, weights, i + 1, r)

\* weightedRandomPick without its `if (total <= 0) return null`
weightedRandomPick_noTotalGuard(items, weights, k) ==
    IF Len(items) = 0 THEN Null
    ELSE pickScan(items, weights, 1, k * SumClamped(weights))

\* k is the numerator of the Math.random() the call draws.
weightedRandomPick(items, weights, k) ==
    IF Len(items) = 0 THEN Null
    ELSE LET total == SumClamped(weights) IN
         IF total <= 0 THEN Null
         ELSE pickScan(items, weights, 1, k * total)

-----------------------------------------------------------------------------
(* engine/eventEngine.ts *)

\* getEligibleEvents without the condition half of its filter
getEligibleEvents_cooldownOnly(events, state, cds, t) ==
    SelectSeq(events, LAMBDA e : ~isEventOnCooldown(cds, e.id, t))

\* getEligibleEvents without the cooldown half of its filter
getEligibleEvents_conditionsOnly(events, state, cds, t) ==
    SelectSeq(events, LAMBDA e : evaluateConditions(state, e.conditions))

getEligibleEvents(events, state, cds, t) ==
    SelectSeq(events,
              LAMBDA e : /\ evaluateConditions(state, e.conditions)
                         /\ ~isEventOnCooldown(cds, e.id, t))

\* selectNextEvent drawing from the whole catalog instead of the eligible list
selectNextEvent_wholeCatalog(events, state, cds, modifiers, t, k) ==
    IF Len(events) = 0 THEN Null
    ELSE LET weights == [i \in 1..Len(events) |->
                            computeWeight(events[i], state, modifiers)]
         IN weightedRandomPick(events, weights, k)

selectNextEvent(events, state, cds, modifiers, t, k) ==
    LET eligible == getEligibleEvents(events, state, cds, t) IN
    IF Len(eligible) = 0 THEN Null
    ELSE LET weights == [i \in 1..Len(eligible) |->
                            computeWeight(eligible[i], state, modifiers)]
         IN weightedRandomPick(eligible, weights, k)

\* applyAction without the implicit score effect
applyAction_noScoreImpact(gs, cds, action, eventId, eventCooldown, t) ==
    LET nextGameState == applyAndClamp(gs, action.effects)
        cd1 == startActionCooldown(cds, action.id, action.cooldown, t)
        cd2 == startEventCooldown(cd1, eventId, eventCooldown, t)
    IN [gameState |-> nextGameState, cooldowns |-> cd2]

\* applyAction stamping the event cooldown into the map of the actions
applyAction_oneMap(gs, cds, action, eventId, eventCooldown, t) ==
    LET effects == action.effects \o
                   (IF action.scoreImpact # 0
                    THEN <<[target |-> "score", delta |-> action.scoreImpact]>>
                    ELSE <<>>)
        nextGameState == applyAndClamp(gs, effects)
        cd1 == startActionCooldown(cds, action.id, action.cooldown, t)
        cd2 == startActionCooldown(cd1, eventId, eventCooldown, t)
    IN [gameState |-> nextGameState, cooldowns |-> cd2]

applyAction(gs, cds, action, eventId, eventCooldown, t) ==
    LET effects == action.effects \o
                   (IF action.scoreImpact # 0
                    THEN <<[target |-> "score", delta |-> action.scoreImpact]>>
                    ELSE <<>>)
        nextGameState == applyAndClamp(gs, effects)
        cd1 == startActionCooldown(cds, action.id, action.cooldown, t)
        cd2 == startEventCooldown(cd1, eventId, eventCooldown, t)
    IN [gameState |-> nextGameState, cooldowns |-> cd2]

\* checkRunOutcome testing the terminal event before the lose condition
checkRunOutcome_terminalFirst(state, selectedEvent) ==
    IF selectedEvent # Null /\ selectedEvent.terminal
          /\ selectedEvent.terminalOutcome = "win" THEN "win"
    ELSE IF selectedEvent # Null /\ selectedEvent.terminal
          /\ selectedEvent.terminalOutcome = "lose" THEN "critical"
    ELSE checkLoseCondition(state)

\* selectedEvent is Null when the caller passes none.
checkRunOutcome(state, selectedEvent) ==
    LET loseReason == checkLoseCondition(state) IN
    IF loseReason # NoOutcome THEN loseReason
    ELSE IF selectedEvent # Null /\ selectedEvent.terminal
              /\ selectedEvent.terminalOutcome = "win" THEN "win"
    ELSE IF selectedEvent # Null /\ selectedEvent.terminal
              /\ selectedEvent.terminalOutcome = "lose" THEN "critical"
    ELSE NoOutcome

-----------------------------------------------------------------------------
(* The data the store is given: data/config.json, data/events.json and the *)
(* catalog GET /api/events serves.                                         *)

Effect(t, d) == [target |-> t, delta |-> d]

Cond(p, o, v) == [param |-> p, op |-> o, value |-> v]

ActionDef(id, label, effects, cd, score) ==
    [id |-> id, label |-> label, effects |-> effects, cooldown |-> cd,
     scoreImpact |-> score]

\* terminalOutcome is "win", "lose" or "undefined"; a missing `terminal` is
\* FALSE (the engine only tests its truthiness).
EventDef(id, title, w, cd, conds, acts, terminal, terminalOutcome) ==
    [id |-> id, title |-> title, baseWeight |-> w, cooldown |-> cd,
     conditions |-> conds, actions |-> acts, terminal |-> terminal,
     terminalOutcome |-> terminalOutcome]

\* config.initRanges: [min, max] of the randomised start values
initRanges ==
    [stress |-> <<15, 16>>, bureaucracy |-> <<20, 20>>, security |-> <<30, 30>>]

evStandup ==
    EventDef("standup", "Daily standup", 2, 1, <<>>,
        << ActionDef("standup-skip", "Skip it",
                     <<Effect("timeLeft", -178), Effect("privilege", 1)>>, 2, 0),
           ActionDef("standup-rant", "Rant",
                     <<Effect("stress", 40), Effect("stress", 40)>>, 0, 3) >>,
        FALSE, "undefined")

evAudit ==
    EventDef("audit", "Surprise audit", 1, 1, <<Cond("timeLeft", ">=", 180)>>,
        << ActionDef("audit-bribe", "Bribe the auditor",
                     <<Effect("bureaucracy", -1000), Effect("score", 2)>>, 1, -7) >>,
        FALSE, "undefined")

evPortOpen ==
    EventDef("port-open", "Port approved", 3, 0,
        <<Cond("privilege", ">=", 2), Cond("timeLeft", ">", 0)>>,
        << ActionDef("port-open-accept", "Open the port", <<>>, 0, 100),
           ActionDef("port-open-force", "Force it through",
                     <<Effect("timeLeft", -1000), Effect("stress", 1000)>>, 0, 0) >>,
        TRUE, "win")

evPortBlocked ==
    EventDef("port-blocked", "Port blocked", 1, 5, <<Cond("security", ">=", 30)>>,
        << ActionDef("port-blocked-accept", "Accept defeat",
                     <<Effect("security", 1000), Effect("privilege", -1)>>,
                     0, -5) >>,
        TRUE, "lose")

\* An event EventSchema accepts: terminal without a terminalOutcome.  Its
\* action carries the id of the event.
evGhost ==
    EventDef("ghost", "Ghost ticket", 1, 0, <<>>,
        << ActionDef("ghost", "Acknowledge",
                     <<Effect("timeLeft", 5), Effect("privilege", 1)>>, 1, 0) >>,
        TRUE, "undefined")

\* data/events.json
eventsRaw == <<evStandup, evAudit, evPortOpen>>

\* what GET /api/events answers
apiEvents == <<evGhost, evPortBlocked>>

Randoms == 0..(RandDenom - 1)

\* Math.floor(min + Math.random() * (max - min + 1))
randomInRange(range, k) ==
    (range[1] * RandDenom + k * (range[2] - range[1] + 1)) \div RandDenom

\* selectNextEvent(...) over every value of the Math.random() it draws
SelectDraws(events, state, cds, modifiers, t) ==
    {selectNextEvent(events, state, cds, modifiers, t, k) : k \in Randoms}

\* The streams of Math.random() values one startRun is run with: stream s
\* yields the numerators s+1, s+2, ... (modulo RandDenom).  The draw of the
\* selection that follows is free.
Streams == {[i \in 1..8 |-> (s + i) % RandDenom] : s \in {0, 1}}

-----------------------------------------------------------------------------
(* store.ts *)

StoreInit ==
    /\ phase = "idle"
    /\ allEvents = eventsRaw
    /\ gameState = initState(EmptyMap)
    /\ cooldowns = emptyCooldowns
    /\ envModifiers = EmptyMap
    /\ currentEvent = Null
    /\ outcome = NoOutcome
    /\ log = <<>>
    /\ now = 0
    /\ fetching = 0
    /\ picks = 0

Init ==
    /\ StoreInit
    /\ fnArg = Null
    /\ fnRes = Null

\* startRun() up to its first await: the fetch is in flight.
StartRunCall ==
    /\ fetching < MaxFetch
    /\ fetching' = fetching + 1
    /\ UNCHANGED <<store, now, picks, fn>>

\* startLog keeping the entries of the log it finds
startLog_keepsOld(ev) == (IF ev # Null THEN <<ev.title>> ELSE <<>>) \o log

\* startRun: log: currentEvent ? [currentEvent.title] : []
startLog(ev) == IF ev # Null THEN <<ev.title>> ELSE <<>>

\* startRun's set() without its `outcome: null`
StartRunSet_keepsOutcome(events) ==
    /\ fetching > 0
    /\ fetching' = fetching - 1
    /\ \E rnd \in Streams :
          LET gs  == initState(
                         [stress      |-> randomInRange(initRanges.stress, rnd[1]),
                          bureaucracy |-> randomInRange(initRanges.bureaucracy, rnd[2]),
                          security    |-> randomInRange(initRanges.security, rnd[3])])
              cds == emptyCooldowns
              mods == generateEnvModifiers(events, [i \in 1..Len(events) |-> rnd[3 + i]])
          IN \E ev \in SelectDraws(events, gs, cds, mods, now) :
             /\ phase' = "playing"
             /\ allEvents' = events
             /\ gameState' = gs
             /\ cooldowns' = cds
             /\ envModifiers' = mods
             /\ currentEvent' = ev
             /\ outcome' = outcome
             /\ log' = startLog(ev)
    /\ UNCHANGED <<now, picks, fn>>

\* startRun() from the point the catalog is known to its end (no await).
StartRunSet(events) ==
    /\ fetching > 0
    /\ fetching' = fetching - 1
    /\ \E rnd \in Streams :
          LET gs  == initState(
                         [stress      |-> randomInRange(initRanges.stress, rnd[1]),
                          bureaucracy |-> randomInRange(initRanges.bureaucracy, rnd[2]),
                          security    |-> randomInRange(initRanges.security, rnd[3])])
              cds == emptyCooldowns
              mods == generateEnvModifiers(events, [i \in 1..Len(events) |-> rnd[3 + i]])
          IN \E ev \in SelectDraws(events, gs, cds, mods, now) :
             /\ phase' = "playing"
             /\ allEvents' = events
             /\ gameState' = gs
             /\ cooldowns' = cds
             /\ envModifiers' = mods
             /\ currentEvent' = ev
             /\ outcome' = NoOutcome
             /\ log' = startLog(ev)
    /\ UNCHANGED <<now, picks, fn>>

\* how the fetch of /api/events can end
FetchFailures == {"network-error", "http-error"}

\* fetchCatalog reading the body of a non-OK response as the catalog: it
\* holds no events
fetchCatalog_noOkCheck(result) ==
    IF result = "ok" THEN apiEvents
    ELSE IF result = "http-error" THEN <<>>
    ELSE eventsRaw

\* startRun: try { fetch; if (!res.ok) throw; res.json() } catch { eventsRaw }
fetchCatalog(result) ==
    IF result = "ok" THEN apiEvents ELSE eventsRaw

\* the fetch answered with a catalog
StartRunFetched == StartRunSet(fetchCatalog("ok"))

\* the fetch threw or answered with a non-OK status
StartRunFallback == \E result \in FetchFailures : StartRunSet(fetchCatalog(result))

\* pickAction selecting the next event before it applies the action: against
\* the state and the cooldown table it read
PickAction_selectsFirst(action, event) ==
    /\ picks < MaxPicks
    /\ picks' = picks + 1
    /\ LET r == applyAction(gameState, cooldowns, action, event.id,
                            event.cooldown, now)
           next == r.gameState
           nextCooldowns == r.cooldowns
           oc == checkRunOutcome(next, event)
       IN IF oc # NoOutcome
          THEN /\ gameState' = next
               /\ cooldowns' = nextCooldowns
               /\ outcome' = oc
               /\ phase' = "over"
               /\ UNCHANGED <<allEvents, envModifiers, currentEvent, log>>
          ELSE \E nextEvent \in SelectDraws(allEvents, gameState, cooldowns,
                                              envModifiers, now) :
               LET entries == <<"> " \o action.label>> \o
                              (IF nextEvent # Null THEN <<nextEvent.title>>
                               ELSE <<>>) \o log
               IN /\ gameState' = next
                  /\ cooldowns' = nextCooldowns
                  /\ currentEvent' = nextEvent
                  /\ log' = SubSeq(entries, 1, Min(LogCap, Len(entries)))
                  /\ UNCHANGED <<phase, allEvents, envModifiers, outcome>>
    /\ UNCHANGED <<now, fetching, fn>>

PickAction(action, event) ==
    /\ picks < MaxPicks
    /\ picks' = picks + 1
    /\ LET r == applyAction(gameState, cooldowns, action, event.id,
                            event.cooldown, now)
           next == r.gameState
           nextCooldowns == r.cooldowns
           oc == checkRunOutcome(next, event)
       IN IF oc # NoOutcome
          THEN /\ gameState' = next
               /\ cooldowns' = nextCooldowns
               /\ outcome' = oc
               /\ phase' = "over"
               /\ UNCHANGED <<allEvents, envModifiers, currentEvent, log>>
          ELSE \E nextEvent \in SelectDraws(allEvents, next, nextCooldowns,
                                              envModifiers, now) :
               LET entries == <<"> " \o action.label>> \o
                              (IF nextEvent # Null THEN <<nextEvent.title>>
                               ELSE <<>>) \o log
               IN /\ gameState' = next
                  /\ cooldowns' = nextCooldowns
                  /\ currentEvent' = nextEvent
                  /\ log' = SubSeq(entries, 1, Min(LogCap, Len(entries)))
                  /\ UNCHANGED <<phase, allEvents, envModifiers, outcome>>
    /\ UNCHANGED <<now, fetching, fn>>

\* tick passing the presented event to checkRunOutcome
tickOutcome_withEvent(next, ev) == checkRunOutcome(next, ev)

\* tick: checkRunOutcome(next), no event is passed; ev is the presented event
tickOutcome(next, ev) == checkRunOutcome(next, Null)

\* tickGuard returning only before a run has started
tickGuard_idleOnly(ph) == ph = "idle"

\* tick: if (phase !== 'playing') return
tickGuard(ph) == ph # "playing"

\* tickNext taking the interval's milliseconds off timeLeft
tickNext_ms(gs) == [gs EXCEPT !.timeLeft = Max(0, @ - TickMs)]

\* tick: { ...gameState, timeLeft: Math.max(0, gameState.timeLeft - 1) }
tickNext(gs) == [gs EXCEPT !.timeLeft = Max(0, @ - 1)]

\* tickRetries selecting on every tick
tickRetries_always(ev) == TRUE

\* tick: if (!currentEvent), the only case in which tick selects
tickRetries(ev) == ev = Null

\* tick re-rolling the env modifiers whenever it retries the selection
Tick_rerollsModifiers ==
    /\ now + TickMs <= MaxClock * TickMs
    /\ now' = now + TickMs
    /\ IF tickGuard(phase) THEN UNCHANGED store
       ELSE LET next == tickNext(gameState)
                oc == tickOutcome(next, currentEvent)
            IN IF oc # NoOutcome
               THEN /\ gameState' = next
                    /\ outcome' = oc
                    /\ phase' = "over"
                    /\ UNCHANGED <<allEvents, cooldowns, envModifiers,
                                   currentEvent, log>>
               ELSE IF tickRetries(currentEvent)
               THEN \E rnd \in Streams :
                    LET mods == generateEnvModifiers(allEvents, rnd) IN
                    \E nextEvent \in SelectDraws(allEvents, next, cooldowns,
                                                   mods, now') :
                    /\ gameState' = next
                    /\ currentEvent' = nextEvent
                    /\ envModifiers' = mods
                    /\ UNCHANGED <<phase, allEvents, cooldowns, outcome, log>>
               ELSE /\ gameState' = next
                    /\ UNCHANGED <<phase, allEvents, cooldowns, envModifiers,
                                   currentEvent, outcome, log>>
    /\ UNCHANGED <<fetching, picks, fn>>

\* The interval callback.  setInterval(tick, 1000) runs it TickMs after the
\* previous one, so the clock it reads is TickMs later.
Tick ==
    /\ now + TickMs <= MaxClock * TickMs
    /\ now' = now + TickMs
    /\ IF tickGuard(phase) THEN UNCHANGED store
       ELSE LET next == tickNext(gameState)
                oc == tickOutcome(next, currentEvent)
            IN IF oc # NoOutcome
               THEN /\ gameState' = next
                    /\ outcome' = oc
                    /\ phase' = "over"
                    /\ UNCHANGED <<allEvents, cooldowns, envModifiers,
                                   currentEvent, log>>
               ELSE IF tickRetries(currentEvent)
               THEN \E nextEvent \in SelectDraws(allEvents, next, cooldowns,
                                                   envModifiers, now') :
                    /\ gameState' = next
                    /\ currentEvent' = nextEvent
                    /\ UNCHANGED <<phase, allEvents, cooldowns, envModifiers,
                                   outcome, log>>
               ELSE /\ gameState' = next
                    /\ UNCHANGED <<phase, allEvents, cooldowns, envModifiers,
                                   currentEvent, outcome, log>>
    /\ UNCHANGED <<fetching, picks, fn>>

\* pickAction(action, event) for an event of the catalog and one of its actions
Pick ==
    \E i \in 1..Len(allEvents) : \E j \in 1..Len(allEvents[i].actions) :
        PickAction(allEvents[i].actions[j], allEvents[i])

Next ==
    \/ StartRunCall
    \/ StartRunFetched
    \/ StartRunFallback
    \/ Pick
    \/ Tick

Spec == Init /\ [][Next]_vars

-----------------------------------------------------------------------------
(* Properties of the store *)

StartRunDone == StartRunFetched \/ StartRunFallback

StateLoss(state) ==
    state.timeLeft <= 0 \/ state.stress >= 100 \/ state.privilege <= 0

\* C1: in every reachable state stress, bureaucracy and security lie in
\* [0,100] and privilege and timeLeft are >= 0, whatever the deltas applied.
C1_BoundedFields ==
    /\ gameState.stress \in 0..100
    /\ gameState.bureaucracy \in 0..100
    /\ gameState.security \in 0..100
    /\ gameState.privilege >= 0
    /\ gameState.timeLeft >= 0

\* an action with deltas of -1000 and +1000 has been applied and clamped
C1_Witness ==
    /\ picks > 0
    /\ phase = "over"
    /\ log # <<>>
    /\ "port-open-force" \in DOMAIN cooldowns.actions
    /\ gameState.timeLeft = 0
    /\ gameState.stress = 100

\* C2: pickAction called while phase is idle or over changes none of
\* gameState, cooldowns, currentEvent, outcome, log and phase.
C2_PickOutsidePlayingIsNoOp ==
    [][(phase \in {"idle", "over"} /\ Pick)
          => UNCHANGED <<gameState, cooldowns, currentEvent, outcome, log, phase>>]_vars

\* C3: once outcome is non-null no pickAction or tick changes it; only a
\* completing startRun resets it, to null.
C3_OutcomeSetOnce ==
    [][outcome # NoOutcome
          => \/ outcome' = outcome
             \/ outcome' = NoOutcome /\ StartRunDone]_vars

\* C4: the phase changes only idle -> playing (startRun), playing -> over (a
\* pickAction or tick with an outcome) and over -> playing (startRun).
C4_PhaseTransitions ==
    [][phase' # phase
          => \/ phase = "idle" /\ phase' = "playing" /\ StartRunDone
             \/ phase = "playing" /\ phase' = "over" /\ (Pick \/ Tick)
                   /\ outcome' # NoOutcome
             \/ phase = "over" /\ phase' = "playing" /\ StartRunDone]_vars

\* e can be selected on state at time t: its conditions hold, its weight is
\* positive and it has no cooldown entry that is still running at t.
Selectable(e, state, cds, t) ==
    /\ evaluateConditions(state, e.conditions)
    /\ e.baseWeight > 0
    /\ ~(e.id \in DOMAIN cds.events /\ t < cds.events[e.id])

\* C5: a tick in phase playing with no current event, which does not end the
\* run and at whose clock value some catalog event is selectable on the
\* post-tick state, sets currentEvent to an event.
C5_TickRecoversFromDeadlock ==
    [][(/\ phase = "playing" /\ currentEvent = Null
        /\ Tick
        /\ phase' = "playing"
        /\ \E i \in 1..Len(allEvents) :
               Selectable(allEvents[i], gameState', cooldowns, now'))
          => currentEvent' # Null]_vars

\* A tick has presented an event whose cooldown entry has lapsed: the log,
\* which only startRun and pickAction write, does not announce it.
C5_Witness ==
    /\ phase = "playing"
    /\ currentEvent # Null
    /\ now > 0
    /\ currentEvent.id \in DOMAIN cooldowns.events
    /\ cooldowns.events[currentEvent.id] <= now
    /\ log # <<>>
    /\ log[1] # currentEvent.title
    /\ (Len(log) >= 2 => log[2] # currentEvent.title)

\* C7: a pickAction on an action of a win- or lose-tagged terminal event whose
\* post-action state meets a lose condition ends the run with that state-loss
\* reason, never with win or critical.
C7_StateLossBeforeTerminal ==
    [][\A i \in 1..Len(allEvents) : \A j \in 1..Len(allEvents[i].actions) :
          (/\ PickAction(allEvents[i].actions[j], allEvents[i])
           /\ allEvents[i].terminal
           /\ allEvents[i].terminalOutcome \in {"win", "lose"}
           /\ StateLoss(gameState'))
             => /\ phase' = "over"
                /\ outcome' \in {"time", "stress", "privilege"}
                /\ outcome' = "time" => gameState'.timeLeft <= 0
                /\ outcome' = "stress" => gameState'.stress >= 100
                /\ outcome' = "privilege" => gameState'.privilege <= 0]_vars

\* the lose-tagged terminal event was acted upon and the run ended by the
\* privilege it cost
C7_Witness ==
    /\ phase = "over"
    /\ outcome = "privilege"
    /\ "port-blocked" \in DOMAIN cooldowns.events
    /\ gameState.privilege = 0

\* C8: a pickAction in phase playing on any action of an event with
\* terminal = true leaves phase = over and a non-null outcome.
C8_TerminalEventEndsRun ==
    [][\A i \in 1..Len(allEvents) : \A j \in 1..Len(allEvents[i].actions) :
          (/\ phase = "playing"
           /\ PickAction(allEvents[i].actions[j], allEvents[i])
           /\ allEvents[i].terminal)
             => phase' = "over" /\ outcome' # NoOutcome]_vars

\* C9: win and critical are set only by a pickAction on a terminal event, and
\* a tick while a terminal event is presented leaves phase playing unless a
\* lose condition holds on the state it leaves.
C9_OnlyActingEndsTerminal ==
    [][/\ (outcome' \in {"win", "critical"} /\ outcome' # outcome)
             => \E i \in 1..Len(allEvents) : \E j \in 1..Len(allEvents[i].actions) :
                    /\ PickAction(allEvents[i].actions[j], allEvents[i])
                    /\ allEvents[i].terminal
       /\ (/\ Tick /\ phase = "playing"
           /\ currentEvent # Null /\ currentEvent.terminal
           /\ ~StateLoss(gameState'))
             => phase' = "playing" /\ outcome' = NoOutcome]_vars

\* no action was ever picked and a tick has passed over a presented
\* lose-tagged terminal event
C9_Witness ==
    /\ phase = "playing"
    /\ picks = 0
    /\ gameState.timeLeft = 179
    /\ currentEvent # Null
    /\ currentEvent.terminal
    /\ currentEvent.terminalOutcome = "lose"

-----------------------------------------------------------------------------
(* checkLoseCondition called on its own *)

LoseInputs ==
    {[INITIAL_STATE EXCEPT !.timeLeft = t, !.stress = st, !.privilege = pr] :
        t \in {-1, 0, 1, 180}, st \in {0, 99, 100, 101}, pr \in {-1, 0, 1, 5}}

InitLose ==
    /\ StoreInit
    /\ fnArg \in {[state |-> st] : st \in LoseInputs}
    /\ fnRes = Null

CallLose ==
    /\ fnRes = Null
    /\ fnRes' = [reason |-> checkLoseCondition(fnArg.state)]
    /\ UNCHANGED <<store, now, fetching, picks, fnArg>>

SpecLose == InitLose /\ [][CallLose]_vars

\* C10: checkLoseCondition returns time whenever timeLeft <= 0, stress
\* whenever timeLeft > 0 and stress >= 100, privilege whenever only
\* privilege <= 0, and none exactly when no lose condition holds.
C10_LosePriority ==
    fnRes # Null =>
        LET st == fnArg.state
            r == fnRes.reason
        IN /\ st.timeLeft <= 0 => r = "time"
           /\ (st.timeLeft > 0 /\ st.stress >= 100) => r = "stress"
           /\ (st.timeLeft > 0 /\ st.stress < 100 /\ st.privilege <= 0)
                 => r = "privilege"
           /\ r = NoOutcome
                 <=> (st.timeLeft > 0 /\ st.stress < 100 /\ st.privilege > 0)

\* all three lose conditions hold at once and time is reported
C10_Witness ==
    /\ fnRes # Null
    /\ fnArg.state.timeLeft = 0
    /\ fnArg.state.stress = 100
    /\ fnArg.state.privilege = 0
    /\ fnRes.reason = "time"

-----------------------------------------------------------------------------
(* selectNextEvent called on its own, on a catalog whose events all have a *)
(* cooldown > 0, conditions that hold and a positive weight, while their   *)
(* cooldowns are started and the clock advances.                           *)

\* cooldown durations run from 1 to DlMaxCooldown seconds
DlMaxCooldown == 2

\* the clock advances DlMaxSteps times by DlStepMs
DlMaxSteps == 5

\* the step of the clock, in milliseconds
DlStepMs == 500

DlEvent(id, w, cd) ==
    EventDef(id, id, w, cd, <<Cond("timeLeft", ">", 0)>>, <<>>, FALSE, "undefined")

DlCatalogs ==
    {<<DlEvent("a", 1, c1), DlEvent("b", w, c2)>> :
        c1 \in 1..DlMaxCooldown, c2 \in 1..DlMaxCooldown, w \in {1, 2}}
    \cup {<<DlEvent("a", 2, c)>> : c \in 1..DlMaxCooldown}

InitDeadlock ==
    /\ StoreInit
    /\ fnArg \in {[events |-> cat, state |-> INITIAL_STATE, cds |-> emptyCooldowns,
                   t0 |-> t, t |-> t] : cat \in DlCatalogs, t \in {0, DlStepMs}}
    /\ fnRes = Null

\* an event of the catalog is triggered at t0: its cooldown starts
DlStart(i) ==
    /\ fnArg.t = fnArg.t0
    /\ fnArg.events[i].id \notin DOMAIN fnArg.cds.events
    /\ fnArg' = [fnArg EXCEPT !.cds = startEventCooldown(@, fnArg.events[i].id,
                                          fnArg.events[i].cooldown, fnArg.t0)]
    /\ UNCHANGED <<store, now, fetching, picks, fnRes>>

DlAdvance ==
    /\ fnArg.t + DlStepMs <= fnArg.t0 + DlMaxSteps * DlStepMs
    /\ fnArg' = [fnArg EXCEPT !.t = @ + DlStepMs]
    /\ UNCHANGED <<store, now, fetching, picks, fnRes>>

DlSelect ==
    /\ \E k \in Randoms :
           fnRes' = [at |-> fnArg.t, cds |-> fnArg.cds,
                     ev |-> selectNextEvent(fnArg.events, fnArg.state, fnArg.cds,
                                            EmptyMap, fnArg.t, k)]
    /\ UNCHANGED <<store, now, fetching, picks, fnArg>>

NextDeadlock ==
    \/ \E i \in 1..Len(fnArg.events) : DlStart(i)
    \/ DlAdvance
    \/ DlSelect

SpecDeadlock == InitDeadlock /\ [][NextDeadlock]_vars

\* every event of the catalog has an entry in the table cds
DlAllStarted(cds) ==
    \A i \in 1..Len(fnArg.events) : fnArg.events[i].id \in DOMAIN cds.events

\* t is at or after the least expiry stored in cds
DlMinExpiryReached(cds, t) ==
    \E id \in DOMAIN cds.events : cds.events[id] <= t

\* C6: once every event's cooldown has been started at the same now,
\* selectNextEvent at that now returns null and selectNextEvent at any later
\* now' >= the least stored expiry returns an event; the table is the same
\* in both calls.
C6_DeadlockRecovery ==
    (fnRes # Null /\ DlAllStarted(fnRes.cds)) =>
        /\ fnRes.at = fnArg.t0 => fnRes.ev = Null
        /\ DlMinExpiryReached(fnRes.cds, fnRes.at) => fnRes.ev # Null
        /\ fnRes.cds = fnArg.cds

\* two events were triggered together, and a selection made exactly at the
\* earlier of the two expiries returned the event that came off cooldown
C6_Witness ==
    /\ fnRes # Null
    /\ Len(fnArg.events) = 2
    /\ DlAllStarted(fnRes.cds)
    /\ fnRes.cds.events["a"] = fnRes.at
    /\ fnRes.cds.events["b"] > fnRes.at
    /\ fnRes.ev # Null
    /\ fnRes.ev.id = "a"

-----------------------------------------------------------------------------
\* weightedRandomPick as a function of its arguments and of Math.random().

\* longest item list given to weightedRandomPick
PickMaxLen == 3

\* the weights tried: negative, zero and positive ones
PickWeights == {-1, 0, 1, 5}

\* items of weightedRandomPick<T>: told apart by their position in the list
PickItems(n) == [i \in 1..n |-> [ix |-> i]]

PickInputs ==
    {[items |-> PickItems(Len(w)), weights |-> w, k |-> k] :
        w \in UNION {[1..m -> PickWeights] : m \in 0..PickMaxLen},
        k \in Randoms}

InitPick == StoreInit /\ fnArg \in PickInputs /\ fnRes = Null

CallPick ==
    /\ fnRes = Null
    /\ fnRes' = [out |-> weightedRandomPick(fnArg.items, fnArg.weights, fnArg.k)]
    /\ UNCHANGED <<store, now, fetching, picks, fnArg>>

SpecPick == InitPick /\ [][CallPick]_vars

\* C11: weightedRandomPick never returns an item whose weight is zero or
\* negative, whatever Math.random() gives: with the weights [0, 0, 5] it
\* returns the third item.
C11_NeverPicksNonPositiveWeight ==
    (fnRes # Null /\ fnRes.out # Null) => fnArg.weights[fnRes.out.ix] > 0


\* C12: weightedRandomPick returns none exactly when the list is empty or no
\* weight is positive; otherwise it returns one of the given items, whatever
\* Math.random() gives.
C12_NoneIffNothingToPick ==
    fnRes # Null =>
        LET n == Len(fnArg.items)
            nothing == n = 0 \/ \A i \in 1..n : fnArg.weights[i] <= 0
        IN /\ (fnRes.out = Null) <=> nothing
           /\ ~nothing => \E i \in 1..n : fnRes.out = fnArg.items[i]

C12_Witness ==
    /\ fnRes # Null
    /\ fnRes.out # Null
    /\ Len(fnArg.items) = 3
    /\ fnArg.weights[1] < 0
    /\ fnArg.weights[3] = 0

-----------------------------------------------------------------------------
\* clampState as a function of its argument.

\* largest magnitude of a field value given to clampState
ClampMaxAbs == 1000

\* values on both sides of the bounds 0 and StatMax
ClampValues == {-ClampMaxAbs, -1, 0, StatMax, StatMax + 1}

ClampInputs ==
    {[timeLeft |-> tl, stress |-> st, privilege |-> pr, bureaucracy |-> bu,
      security |-> se, influence |-> inf, score |-> sc] :
        tl \in ClampValues, st \in ClampValues, pr \in ClampValues,
        bu \in {-1, 50, ClampMaxAbs}, se \in {-ClampMaxAbs, 50, StatMax + 1},
        inf \in {-3, 0, ClampMaxAbs}, sc \in {-ClampMaxAbs, 7}}

InitClamp == StoreInit /\ fnArg \in ClampInputs /\ fnRes = Null

CallClamp ==
    /\ fnRes = Null
    /\ fnRes' = [out |-> clampState(fnArg),
                 twice |-> clampState(clampState(fnArg))]
    /\ UNCHANGED <<store, now, fetching, picks, fnArg>>

SpecClamp == InitClamp /\ [][CallClamp]_vars

\* C13: clampState puts stress, bureaucracy and security in 0..100 and
\* privilege and timeLeft at 0 or above, each to the nearest bound, leaves
\* score and influence as they were, and clamping twice equals clamping once.
C13_ClampState ==
    fnRes # Null =>
        /\ \A f \in {"stress", "bureaucracy", "security"} :
              fnRes.out[f] = (IF fnArg[f] < 0 THEN 0
                              ELSE IF fnArg[f] > 100 THEN 100 ELSE fnArg[f])
        /\ \A f \in {"privilege", "timeLeft"} :
              fnRes.out[f] = (IF fnArg[f] < 0 THEN 0 ELSE fnArg[f])
        /\ fnRes.out.score = fnArg.score
        /\ fnRes.out.influence = fnArg.influence
        /\ fnRes.twice = fnRes.out

C13_Witness ==
    /\ fnRes # Null
    /\ fnArg.stress > 100 /\ fnRes.out.stress = 100
    /\ fnArg.timeLeft < 0 /\ fnRes.out.timeLeft = 0
    /\ fnArg.privilege > 100 /\ fnRes.out.privilege > 100
    /\ fnArg.score < 0 /\ fnArg.influence < 0

-----------------------------------------------------------------------------
\* The cooldown table as a function of one start call and of the query time.

\* longest cooldown started, in seconds
CdMaxDur == 2

\* latest start time, in steps of CdStepMs
CdMaxStart == 2

\* spacing of the start times, in milliseconds
CdStepMs == 500

\* tables the start call is applied to: empty, holding a later expiry of the
\* same ids, holding other ids
CdTables ==
    {emptyCooldowns,
     [events |-> ("a" :> 9000) @@ ("b" :> 1), actions |-> ("a" :> 9000)],
     [events |-> ("c" :> 9000), actions |-> ("b" :> 1) @@ ("c" :> 9000)]}

CdInputs ==
    {[cds |-> c, kind |-> kd, id |-> id, d |-> d, t0 |-> n * CdStepMs] :
        c \in CdTables, kd \in {"event", "action"}, id \in {"a", "b"},
        d \in 0..CdMaxDur, n \in 0..CdMaxStart}

InitCooldown == StoreInit /\ fnArg \in CdInputs /\ fnRes = Null

CallCooldown ==
    /\ fnRes = Null
    /\ fnRes' = [cds |-> IF fnArg.kind = "event"
                         THEN startEventCooldown(fnArg.cds, fnArg.id, fnArg.d, fnArg.t0)
                         ELSE startActionCooldown(fnArg.cds, fnArg.id, fnArg.d, fnArg.t0)]
    /\ UNCHANGED <<store, now, fetching, picks, fnArg>>

SpecCooldown == InitCooldown /\ [][CallCooldown]_vars

\* the query of the map the call wrote
CdQuery(cds, kind, id, t) ==
    IF kind = "event" THEN isEventOnCooldown(cds, id, t)
    ELSE isActionOnCooldown(cds, id, t)

\* C14: after a cooldown of d >= 0 seconds is started for an id at time t0,
\* the id is on cooldown at exactly the times t < t0 + d * 1000 (so with
\* d = 0 not even at t0), and an id without an entry is never on cooldown;
\* the same for the event map and the action map.
C14_CooldownWindow ==
    fnRes # Null =>
        \A t \in 0..(fnArg.t0 + (fnArg.d + 1) * 1000) :
            /\ CdQuery(fnRes.cds, fnArg.kind, fnArg.id, t)
                  <=> t < fnArg.t0 + fnArg.d * 1000
            /\ ~isEventOnCooldown(fnRes.cds, "none", t)
            /\ ~isActionOnCooldown(fnRes.cds, "none", t)
            /\ ~isEventOnCooldown(emptyCooldowns, fnArg.id, t)
            /\ ~isActionOnCooldown(emptyCooldowns, fnArg.id, t)

C14_Witness ==
    /\ fnRes # Null
    /\ fnArg.kind = "action"
    /\ fnArg.d > 0
    /\ fnArg.t0 > 0
    /\ fnArg.id \in DOMAIN fnArg.cds.actions
    /\ isActionOnCooldown(fnRes.cds, fnArg.id, fnArg.t0 + fnArg.d * 1000 - 1)
    /\ ~isActionOnCooldown(fnRes.cds, fnArg.id, fnArg.t0 + fnArg.d * 1000)

-----------------------------------------------------------------------------
\* The store again: cooldown entries and the tick's frame.

\* C15: across pickAction and tick the key sets of both cooldown maps only
\* grow (an entry is overwritten, never removed); the only step after which a
\* key is gone is the set of startRun, which leaves the table empty.
C15_CooldownKeysOnlyGrow ==
    [][ \/ /\ DOMAIN cooldowns.events \subseteq DOMAIN cooldowns'.events
           /\ DOMAIN cooldowns.actions \subseteq DOMAIN cooldowns'.actions
        \/ /\ fetching' = fetching - 1
           /\ phase' = "playing"
           /\ cooldowns' = emptyCooldowns ]_vars

C15_Witness ==
    /\ phase = "playing"
    /\ now > 0
    /\ Cardinality(DOMAIN cooldowns.events) = 2
    /\ Cardinality(DOMAIN cooldowns.actions) = 2


\* C16: a tick while the phase is playing takes exactly one off timeLeft
\* (never below 0) and may set currentEvent only when it was null; stress,
\* privilege, bureaucracy, security, influence, score, the cooldown table,
\* the env modifiers, the catalog and the log stay as they were.
C16_TickFrame ==
    [][ (now' # now /\ phase = "playing") =>
            /\ gameState'.timeLeft = (IF gameState.timeLeft - 1 < 0 THEN 0
                                      ELSE gameState.timeLeft - 1)
            /\ \A f \in {"stress", "privilege", "bureaucracy", "security",
                         "influence", "score"} : gameState'[f] = gameState[f]
            /\ cooldowns' = cooldowns
            /\ envModifiers' = envModifiers
            /\ allEvents' = allEvents
            /\ log' = log
            /\ (currentEvent # Null => currentEvent' = currentEvent) ]_vars

C16_Witness ==
    /\ phase = "playing"
    /\ picks = 0
    /\ gameState.timeLeft = INITIAL_STATE.timeLeft - 2

\* C17: a tick never replaces or clears an event that is being presented:
\* whatever the phase, currentEvent changes across a tick only if it was null.
C17_TickKeepsPresentedEvent ==
    [][ (now' # now /\ currentEvent # Null) => currentEvent' = currentEvent ]_vars

C17_Witness ==
    /\ phase = "playing"
    /\ picks = 0
    /\ gameState.timeLeft < INITIAL_STATE.timeLeft
    /\ currentEvent # Null
    /\ log = <<currentEvent.title>>
    /\ Len(getEligibleEvents(allEvents, gameState, cooldowns, now)) > 1

\* C18: a tick while the phase is idle or over changes nothing of the store:
\* timeLeft is not decremented, nothing is selected, outcome and phase stay.
C18_TickOutsidePlayingIsNoOp ==
    [][ (now' # now /\ phase # "playing") => UNCHANGED store ]_vars

C18_Witness ==
    /\ phase = "over"
    /\ outcome = "win"
    /\ gameState.timeLeft > 0
    /\ "port-open-accept" \in DOMAIN cooldowns.actions
    /\ cooldowns.actions["port-open-accept"] < now

-----------------------------------------------------------------------------
\* getEligibleEvents as a function of its arguments.

\* latest query time given to getEligibleEvents, in steps of ElStepMs
ElMaxSteps == 4

\* spacing of the query times, in milliseconds
ElStepMs == 500

ElCatalogs == {<<>>, eventsRaw, apiEvents, eventsRaw \o apiEvents}

\* states on both sides of the thresholds of the catalog's conditions
ElStates ==
    {[INITIAL_STATE EXCEPT !.timeLeft = tl, !.privilege = pr, !.security = se] :
        tl \in {0, 179, 180}, pr \in {1, 2}, se \in {29, 30}}

ElCooldowns ==
    {emptyCooldowns,
     [events |-> ("standup" :> 1000) @@ ("port-open" :> 2000),
      actions |-> EmptyMap],
     [events |-> ("audit" :> 1000) @@ ("ghost" :> 1) @@ ("port-blocked" :> 1500),
      actions |-> ("ghost" :> 9000)]}

ElInputs ==
    {[events |-> ev, state |-> st, cds |-> c, t |-> n * ElStepMs] :
        ev \in ElCatalogs, st \in ElStates, c \in ElCooldowns,
        n \in 0..ElMaxSteps}

InitEligible == StoreInit /\ fnArg \in ElInputs /\ fnRes = Null

CallEligible ==
    /\ fnRes = Null
    /\ fnRes' = [out |-> getEligibleEvents(fnArg.events, fnArg.state,
                                           fnArg.cds, fnArg.t)]
    /\ UNCHANGED <<store, now, fetching, picks, fnArg>>

SpecEligible == InitEligible /\ [][CallEligible]_vars

\* an event whose conditions all hold on the state of the call
ElHolds(e) == \A i \in 1..Len(e.conditions) :
                  evaluateCondition(fnArg.state, e.conditions[i])

\* an event with no unexpired entry in the event map of the call
ElReady(e) == e.id \notin DOMAIN fnArg.cds.events
                  \/ fnArg.t >= fnArg.cds.events[e.id]

\* C19: getEligibleEvents returns, in catalog order, exactly the events whose
\* conditions all hold on the state and which are not on event cooldown at
\* now; filtering by conditions then cooldown, or by cooldown then
\* conditions, gives that same list.
C19_EligibleEvents ==
    fnRes # Null =>
        /\ fnRes.out = SelectSeq(SelectSeq(fnArg.events, ElHolds), ElReady)
        /\ fnRes.out = SelectSeq(SelectSeq(fnArg.events, ElReady), ElHolds)
        /\ \A i \in 1..Len(fnArg.events) :
              (\E j \in 1..Len(fnRes.out) : fnRes.out[j] = fnArg.events[i])
                  <=> (ElHolds(fnArg.events[i]) /\ ElReady(fnArg.events[i]))

C19_Witness ==
    /\ fnRes # Null
    /\ Len(fnRes.out) >= 2
    /\ \E i \in 1..Len(fnArg.events) :
          ElHolds(fnArg.events[i]) /\ ~ElReady(fnArg.events[i])
    /\ \E i \in 1..Len(fnArg.events) :
          ~ElHolds(fnArg.events[i]) /\ ElReady(fnArg.events[i])

-----------------------------------------------------------------------------
\* evaluateCondition and evaluateConditions as functions of their arguments.

\* how far a threshold lies from the value of the field it is compared with
CondMaxOffset == 1

\* states the conditions are evaluated on
CondStates ==
    {INITIAL_STATE,
     [INITIAL_STATE EXCEPT !.timeLeft = 0, !.stress = 100, !.score = -7]}

\* conditions on a field of state s, thresholds around the field's value
CondsOn(s, params) ==
    {Cond(p, o, s[p] + off) :
        p \in params, o \in Ops, off \in (-CondMaxOffset)..CondMaxOffset}

CondInputs ==
    UNION {{[state |-> s, conditions |-> <<>>]}
           \cup {[state |-> s, conditions |-> <<c>>] : c \in CondsOn(s, Fields)}
           \cup {[state |-> s, conditions |-> <<c, d>>] :
                    c \in CondsOn(s, {"timeLeft"}), d \in CondsOn(s, {"score"})}
           : s \in CondStates}

InitCond == StoreInit /\ fnArg \in CondInputs /\ fnRes = Null

CallCond ==
    /\ fnRes = Null
    /\ fnRes' = [each |-> [i \in 1..Len(fnArg.conditions) |->
                              evaluateCondition(fnArg.state, fnArg.conditions[i])],
                 all |-> evaluateConditions(fnArg.state, fnArg.conditions)]
    /\ UNCHANGED <<store, now, fetching, picks, fnArg>>

SpecCond == InitCond /\ [][CallCond]_vars

\* the comparison an operator stands for
CondDirect(val, op, threshold) ==
    \/ op = ">"  /\ val > threshold
    \/ op = "<"  /\ val < threshold
    \/ op = ">=" /\ (val > threshold \/ val = threshold)
    \/ op = "<=" /\ (val < threshold \/ val = threshold)
    \/ op = "==" /\ val = threshold
    \/ op = "!=" /\ (val < threshold \/ val > threshold)

\* C20: for each of the six operators evaluateCondition is the arithmetic
\* comparison of the named field with the threshold; evaluateConditions is
\* true exactly when every condition of the list is, so true for the empty
\* list.
C20_ConditionsAreComparisons ==
    fnRes # Null =>
        /\ \A i \in 1..Len(fnArg.conditions) :
              fnRes.each[i] <=> CondDirect(fnArg.state[fnArg.conditions[i].param],
                                           fnArg.conditions[i].op,
                                           fnArg.conditions[i].value)
        /\ fnRes.all <=> (\A i \in 1..Len(fnArg.conditions) : fnRes.each[i])
        /\ fnArg.conditions = <<>> => fnRes.all

C20_Witness ==
    /\ fnRes # Null
    /\ Len(fnArg.conditions) = 2
    /\ fnArg.conditions[1].op = ">="
    /\ fnArg.conditions[1].value = fnArg.state.timeLeft
    /\ fnRes.each[1]
    /\ fnArg.conditions[2].op = "!="
    /\ ~fnRes.each[2]
    /\ ~fnRes.all

-----------------------------------------------------------------------------
\* selectNextEvent as a function of its arguments and of Math.random().

\* env modifier tables given to selectNextEvent: none, and a generated one
SelModifiers(events) ==
    {EmptyMap} \cup {generateEnvModifiers(events, [i \in 1..8 |-> i % RandDenom])}

SelInputs ==
    {[events |-> a.events, state |-> a.state, cds |-> a.cds, t |-> a.t,
      modifiers |-> m, k |-> k] :
        a \in ElInputs, m \in UNION {SelModifiers(c) : c \in ElCatalogs},
        k \in Randoms}

InitSelect == StoreInit /\ fnArg \in SelInputs /\ fnRes = Null

CallSelect ==
    /\ fnRes = Null
    /\ fnRes' = [out |-> selectNextEvent(fnArg.events, fnArg.state, fnArg.cds,
                                         fnArg.modifiers, fnArg.t, fnArg.k)]
    /\ UNCHANGED <<store, now, fetching, picks, fnArg>>

SpecSelect == InitSelect /\ [][CallSelect]_vars

\* C21: an event returned by selectNextEvent is a member of the catalog, all
\* its conditions hold on the given state and it is not on cooldown at the
\* given now; when no event of the catalog is eligible the result is null.
C21_SelectedEventIsEligible ==
    fnRes # Null =>
        /\ fnRes.out # Null =>
              /\ \E i \in 1..Len(fnArg.events) : fnArg.events[i] = fnRes.out
              /\ ElHolds(fnRes.out)
              /\ ElReady(fnRes.out)
        /\ (\A i \in 1..Len(fnArg.events) :
               ~(ElHolds(fnArg.events[i]) /\ ElReady(fnArg.events[i])))
              => fnRes.out = Null

C21_Witness ==
    /\ fnRes # Null
    /\ fnRes.out # Null
    /\ fnRes.out # fnArg.events[1]
    /\ \E i \in 1..Len(fnArg.events) :
          ElHolds(fnArg.events[i]) /\ ~ElReady(fnArg.events[i])
    /\ \E i \in 1..Len(fnArg.events) :
          ~ElHolds(fnArg.events[i]) /\ ElReady(fnArg.events[i])

-----------------------------------------------------------------------------
\* The store: what a run keeps fixed, and what startRun replaces.

\* C22: the env modifier table and the catalog are fixed for the duration of
\* a run: no pickAction and no tick changes envModifiers or allEvents; only
\* the set of startRun writes them.
C22_RunKeepsModifiersAndCatalog ==
    [][ fetching' = fetching =>
            /\ envModifiers' = envModifiers
            /\ allEvents' = allEvents ]_vars

C22_Witness ==
    /\ phase = "playing"
    /\ envModifiers # EmptyMap
    /\ Len(log) >= 2
    /\ "standup-skip" \in DOMAIN cooldowns.actions
    /\ cooldowns.actions["standup-skip"]
          - evStandup.actions[1].cooldown * 1000 < now

-----------------------------------------------------------------------------
\* applyAction as a function of its arguments.

\* longest event cooldown given to applyAction, in seconds
ApMaxCooldown == 2

\* latest call time given to applyAction, in steps of ApStepMs
ApMaxSteps == 1

\* spacing of the call times, in milliseconds
ApStepMs == 500

\* an action whose effects overshoot a bound and come back, and which names
\* score among its effects
acSwing ==
    ActionDef("swing", "Swing", <<Effect("stress", 1000), Effect("stress", -950),
                                  Effect("timeLeft", -500), Effect("timeLeft", 400),
                                  Effect("score", -2)>>, 1, 0)

\* the actions of both catalogs, and acSwing
ApActions ==
    {e.actions[j] : <<e, j>> \in
        {<<e, j>> \in {evStandup, evAudit, evPortOpen, evPortBlocked, evGhost}
                          \X (1..2) : j <= Len(e.actions)}}
    \cup {acSwing}

ApStates ==
    {INITIAL_STATE,
     [INITIAL_STATE EXCEPT !.timeLeft = 120, !.stress = 90, !.privilege = 0,
                           !.score = -3]}

ApInputs ==
    {[gs |-> g, cds |-> c, action |-> a, eventId |-> id, eventCooldown |-> d,
      t |-> n * ApStepMs] :
        g \in ApStates, c \in ElCooldowns, a \in ApActions,
        id \in {"ghost", "standup"}, d \in 0..ApMaxCooldown, n \in 0..ApMaxSteps}

InitApply == StoreInit /\ fnArg \in ApInputs /\ fnRes = Null

\* the action with its effect list reordered by the permutation p
ApReordered(action, p) ==
    [action EXCEPT !.effects = [i \in 1..Len(action.effects) |->
                                   action.effects[p[i]]]]

CallApply ==
    /\ fnRes = Null
    /\ fnRes' = [out |-> applyAction(fnArg.gs, fnArg.cds, fnArg.action,
                                     fnArg.eventId, fnArg.eventCooldown, fnArg.t),
                 orders |-> {applyAction(fnArg.gs, fnArg.cds,
                                         ApReordered(fnArg.action, p),
                                         fnArg.eventId, fnArg.eventCooldown,
                                         fnArg.t).gameState :
                                p \in Permutations(1..Len(fnArg.action.effects))}]
    /\ UNCHANGED <<store, now, fetching, picks, fnArg>>

SpecApply == InitApply /\ [][CallApply]_vars

RECURSIVE ApSum(_, _)
\* the sum of the deltas the effect list declares on a field
ApSum(effects, f) ==
    IF effects = <<>> THEN 0
    ELSE (IF Head(effects).target = f THEN Head(effects).delta ELSE 0)
         + ApSum(Tail(effects), f)

\* C23: the score after applyAction is the old score plus scoreImpact plus
\* the sum of the action's declared deltas on score, with no clamping: it may
\* be negative.
C23_ScoreIsSumUnclamped ==
    fnRes # Null =>
        fnRes.out.gameState.score =
            fnArg.gs.score + fnArg.action.scoreImpact
                + ApSum(fnArg.action.effects, "score")

C23_Witness ==
    /\ fnRes # Null
    /\ fnArg.action.scoreImpact # 0
    /\ ApSum(fnArg.action.effects, "score") # 0
    /\ fnRes.out.gameState.score < 0
    /\ fnArg.gs.score = 0


\* the effect list applyAction hands on: the declared effects, then score
ApDelta(f) ==
    ApSum(fnArg.action.effects, f)
        + (IF f = "score" THEN fnArg.action.scoreImpact ELSE 0)

\* a value brought into the range of its field
ApBounded(f, x) ==
    IF f \in {"stress", "bureaucracy", "security"}
    THEN (IF x < 0 THEN 0 ELSE IF x > 100 THEN 100 ELSE x)
    ELSE IF f \in {"privilege", "timeLeft"} THEN (IF x < 0 THEN 0 ELSE x)
    ELSE x

\* C24: the state after applyAction is the clamp, applied once, of the old
\* state plus the sum of all deltas of each field: deltas on one field
\* accumulate unclamped, and every ordering of the effect list gives the
\* same state.
C24_ClampOnceAfterSum ==
    fnRes # Null =>
        /\ \A f \in Fields :
              fnRes.out.gameState[f] = ApBounded(f, fnArg.gs[f] + ApDelta(f))
        /\ fnRes.orders = {fnRes.out.gameState}

C24_Witness ==
    /\ fnRes # Null
    /\ fnArg.action = acSwing
    /\ fnArg.gs.stress + 1000 > 100
    /\ fnRes.out.gameState.stress \in 1..99
    /\ fnRes.out.gameState.timeLeft > 0

\* C25: applyAction writes cooldowns.actions[action.id] = now +
\* action.cooldown * 1000 and cooldowns.events[eventId] = now +
\* eventCooldown * 1000 and no other entry: each map changes only at its own
\* key, also when the action id equals the event id.
C25_CooldownsStamped ==
    fnRes # Null =>
        LET old == fnArg.cds
            new == fnRes.out.cooldowns
        IN /\ DOMAIN new.actions = DOMAIN old.actions \cup {fnArg.action.id}
           /\ DOMAIN new.events = DOMAIN old.events \cup {fnArg.eventId}
           /\ new.actions[fnArg.action.id]
                 = fnArg.t + fnArg.action.cooldown * 1000
           /\ new.events[fnArg.eventId] = fnArg.t + fnArg.eventCooldown * 1000
           /\ \A id \in DOMAIN old.actions \ {fnArg.action.id} :
                 new.actions[id] = old.actions[id]
           /\ \A id \in DOMAIN old.events \ {fnArg.eventId} :
                 new.events[id] = old.events[id]

C25_Witness ==
    /\ fnRes # Null
    /\ fnArg.action.id = fnArg.eventId
    /\ fnArg.eventId \in DOMAIN fnArg.cds.events
    /\ fnArg.eventId \in DOMAIN fnArg.cds.actions
    /\ fnArg.action.cooldown # fnArg.eventCooldown
    /\ fnArg.t > 0
    /\ fnRes.out.cooldowns.actions[fnArg.eventId]
          # fnRes.out.cooldowns.events[fnArg.eventId]
    /\ Cardinality(DOMAIN fnRes.out.cooldowns.events) > 1


\* C26: every completed startRun replaces the run state, whatever preceded
\* it: afterwards phase = playing, outcome = null, the cooldown table is
\* empty, timeLeft = 180, privilege = 1, influence = 0, score = 0, and the
\* log is empty or holds just the title of the event selected first.
C26_StartRunReplacesRunState ==
    [][ fetching' = fetching - 1 =>
            /\ phase' = "playing"
            /\ outcome' = NoOutcome
            /\ DOMAIN cooldowns'.events = {}
            /\ DOMAIN cooldowns'.actions = {}
            /\ gameState'.timeLeft = 180
            /\ gameState'.privilege = 1
            /\ gameState'.influence = 0
            /\ gameState'.score = 0
            /\ \/ currentEvent' = Null /\ log' = <<>>
               \/ currentEvent' # Null /\ log' = <<currentEvent'.title>> ]_vars

C26_Witness ==
    /\ phase = "playing"
    /\ picks > 0
    /\ now > 0
    /\ cooldowns = emptyCooldowns
    /\ Len(log) = 1
    /\ gameState.score = 0
    /\ gameState.privilege = 1


\* C27: a failing catalog fetch never leaves the engine stuck or without
\* data: while a startRun waits for its fetch, the failing answer can always
\* be processed, and processing it installs the static catalog, presents an
\* event of it and sets phase = playing.
C27_FetchFailureFallsBack ==
    /\ [](fetching > 0 => ENABLED StartRunFallback)
    /\ [][ StartRunFallback =>
              /\ phase' = "playing"
              /\ allEvents' = eventsRaw
              /\ Len(allEvents') > 0
              /\ currentEvent' # Null
              /\ \E i \in 1..Len(eventsRaw) : currentEvent' = eventsRaw[i] ]_vars

C27_Witness ==
    /\ phase = "playing"
    /\ allEvents = eventsRaw
    /\ fetching = 0
    /\ picks > 0
    /\ cooldowns = emptyCooldowns
    /\ currentEvent # Null
    /\ log = <<currentEvent.title>>
    /\ DOMAIN envModifiers = {eventsRaw[i].id : i \in 1..Len(eventsRaw)}

-----------------------------------------------------------------------------
\* tick and pickAction as the event loop runs them: each reads the store with
\* get(), computes, and writes with set().  Both are synchronous functions, so
\* a handler that has entered runs to its set() before any other handler
\* enters.  fnArg is the frame of a tick between its get() and its set(),
\* fnRes the frame of a pickAction; Null when there is none.

\* whether a handler may enter: own is its frame, other the other handler's
\* frame, and a handler that can be suspended between get() and set()
canEnter_suspendable(own, other) == own = Null

\* no handler has an await between get() and set(): none may enter while
\* another is in progress
canEnter(own, other) == own = Null /\ other = Null

\* tick: const { phase, allEvents, ... } = get()
LoopTickGet ==
    /\ canEnter(fnArg, fnRes)
    /\ now + TickMs <= MaxClock * TickMs
    /\ fnArg' = [phase |-> phase, allEvents |-> allEvents,
                 gameState |-> gameState, cooldowns |-> cooldowns,
                 envModifiers |-> envModifiers, currentEvent |-> currentEvent]
    /\ UNCHANGED <<store, now, fetching, picks, fnRes>>

\* tick from its guard to its set(), computed from the frame; set() leaves
\* the keys it is not given as they are
LoopTickSet ==
    /\ fnArg # Null
    /\ fnArg' = Null
    /\ now' = now + TickMs
    /\ IF tickGuard(fnArg.phase) THEN UNCHANGED store
       ELSE LET next == tickNext(fnArg.gameState)
                oc == tickOutcome(next, fnArg.currentEvent)
            IN IF oc # NoOutcome
               THEN /\ gameState' = next
                    /\ outcome' = oc
                    /\ phase' = "over"
                    /\ UNCHANGED <<allEvents, cooldowns, envModifiers,
                                   currentEvent, log>>
               ELSE IF tickRetries(fnArg.currentEvent)
               THEN \E nextEvent \in SelectDraws(fnArg.allEvents, next,
                                                   fnArg.cooldowns,
                                                   fnArg.envModifiers, now') :
                    /\ gameState' = next
                    /\ currentEvent' = nextEvent
                    /\ UNCHANGED <<phase, allEvents, cooldowns, envModifiers,
                                   outcome, log>>
               ELSE /\ gameState' = next
                    /\ UNCHANGED <<phase, allEvents, cooldowns, envModifiers,
                                   currentEvent, outcome, log>>
    /\ UNCHANGED <<fetching, picks, fnRes>>

\* pickAction: const { allEvents, gameState, cooldowns, envModifiers } = get()
LoopPickGet(action, event) ==
    /\ canEnter(fnRes, fnArg)
    /\ picks < MaxPicks
    /\ picks' = picks + 1
    /\ fnRes' = [allEvents |-> allEvents, gameState |-> gameState,
                 cooldowns |-> cooldowns, envModifiers |-> envModifiers,
                 action |-> action, event |-> event]
    /\ UNCHANGED <<store, now, fetching, fnArg>>

\* pickAction from applyAction to its set(), computed from the frame; the
\* log is read inside set(state => ...), so it is the log of the store
LoopPickSet ==
    /\ fnRes # Null
    /\ fnRes' = Null
    /\ LET r == applyAction(fnRes.gameState, fnRes.cooldowns, fnRes.action,
                            fnRes.event.id, fnRes.event.cooldown, now)
           next == r.gameState
           nextCooldowns == r.cooldowns
           oc == checkRunOutcome(next, fnRes.event)
       IN IF oc # NoOutcome
          THEN /\ gameState' = next
               /\ cooldowns' = nextCooldowns
               /\ outcome' = oc
               /\ phase' = "over"
               /\ UNCHANGED <<allEvents, envModifiers, currentEvent, log>>
          ELSE \E nextEvent \in SelectDraws(fnRes.allEvents, next, nextCooldowns,
                                              fnRes.envModifiers, now) :
               LET entries == <<"> " \o fnRes.action.label>> \o
                              (IF nextEvent # Null THEN <<nextEvent.title>>
                               ELSE <<>>) \o log
               IN /\ gameState' = next
                  /\ cooldowns' = nextCooldowns
                  /\ currentEvent' = nextEvent
                  /\ log' = SubSeq(entries, 1, Min(LogCap, Len(entries)))
                  /\ UNCHANGED <<phase, allEvents, envModifiers, outcome>>
    /\ UNCHANGED <<now, fetching, picks, fnArg>>

\* the player's click on an action of an event of the catalog
LoopPick ==
    \E i \in 1..Len(allEvents) : \E j \in 1..Len(allEvents[i].actions) :
        LoopPickGet(allEvents[i].actions[j], allEvents[i])

\* startRun's two halves are tasks of the same loop
LoopStartRunCall == fnArg = Null /\ fnRes = Null /\ StartRunCall

LoopStartRunSet == fnArg = Null /\ fnRes = Null /\ StartRunFallback

NextLoop ==
    \/ LoopStartRunCall
    \/ LoopStartRunSet
    \/ LoopTickGet
    \/ LoopTickSet
    \/ LoopPick
    \/ LoopPickSet

SpecLoop == Init /\ [][NextLoop]_vars

\* C28: tick and pickAction are each one atomic transition: while one is
\* between its get() and its set() the other is not, and the gameState,
\* cooldowns, phase and currentEvent it read are still those of the store, so
\* its set() writes values computed from the current state (the result of
\* processing the triggers one after another) and overwrites no update.
C28_HandlersAreAtomic ==
    /\ ~(fnArg # Null /\ fnRes # Null)
    /\ fnArg # Null =>
          /\ fnArg.gameState = gameState
          /\ fnArg.cooldowns = cooldowns
          /\ fnArg.phase = phase
          /\ fnArg.currentEvent = currentEvent
    /\ fnRes # Null =>
          /\ fnRes.gameState = gameState
          /\ fnRes.cooldowns = cooldowns

C28_Witness ==
    /\ fnArg # Null
    /\ fnArg.phase = "playing"
    /\ Len(log) >= 2
    /\ picks = MaxPicks
    /\ "standup-skip" \in DOMAIN cooldowns.actions
    /\ now > 0

-----------------------------------------------------------------------------
\* weightedRandomPick over all the rolls of a grid: how often each item comes.

\* the weights of SpecPick, and 3 for the list [1, 3]
ShareWeights == PickWeights \cup {3}

ShareInputs ==
    {[items |-> PickItems(Len(w)), weights |-> w] :
        w \in UNION {[1..m -> ShareWeights] : m \in 0..PickMaxLen}}

InitShare == StoreInit /\ fnArg \in ShareInputs /\ fnRes = Null

\* Math.random() takes the values r / (RandDenom * total), r = 0, 1, ..., so
\* that roll takes the values r / RandDenom of [0, total), each as often as
\* any other; counts[i] is the number of them at which items[i] is returned.
CallShare ==
    /\ fnRes = Null
    /\ fnRes' =
          LET items == fnArg.items
              weights == fnArg.weights
              total == SumClamped(weights)
          IN IF weightedRandomPick(items, weights, 0) = Null
             THEN [total |-> 0, counts |-> [i \in 1..Len(items) |-> 0]]
             ELSE [total |-> total,
                   counts |-> [i \in 1..Len(items) |->
                       Cardinality({r \in 0..(RandDenom * total - 1) :
                           pickScan(items, weights, 1, r) = items[i]})]]
    /\ UNCHANGED <<store, now, fetching, picks, fnArg>>

SpecShare == InitShare /\ [][CallShare]_vars

\* C29: weightedRandomPick samples in proportion to the weights: of the
\* RandDenom * total equally likely rolls, item i is returned at
\* RandDenom * max(0, weight_i) of them, give or take one roll (the roll 0 and
\* the end of the range), so with probability max(0, weight_i) / total; the
\* weights [1, 3] give a quarter and three quarters.
C29_ProportionalToWeight ==
    (fnRes # Null /\ fnRes.total > 0) =>
        \A i \in 1..Len(fnArg.items) :
            LET share == RandDenom * (IF fnArg.weights[i] > 0
                                      THEN fnArg.weights[i] ELSE 0)
            IN /\ fnRes.counts[i] - share <= 1
               /\ share - fnRes.counts[i] <= 1

C29_Witness ==
    /\ fnRes # Null
    /\ fnArg.weights = <<1, 3>>
    /\ fnRes.total = 4
    /\ fnRes.counts[1] > 0
    /\ fnRes.counts[2] >= 2 * fnRes.counts[1]
    /\ fnRes.counts[1] + fnRes.counts[2] = RandDenom * 4


RECURSIVE PickRunning(_, _)
\* the running sum of the weights up to position i, a negative weight
\* counting as 0
PickRunning(weights, i) ==
    IF i = 0 THEN 0
    ELSE PickRunning(weights, i - 1) + (IF weights[i] > 0 THEN weights[i] ELSE 0)

\* C30: with negative weights counted as 0 in the total and in the scan, and
\* roll = Math.random() * total in [0, total), weightedRandomPick returns
\* the first item of the list at which roll minus the running sum of the
\* clamped weights is <= 0.  (Math.random() = k / RandDenom: the test is
\* k * total <= RandDenom * running sum.)
C30_ScanRule ==
    (fnRes # Null /\ PickRunning(fnArg.weights, Len(fnArg.weights)) > 0) =>
        LET w == fnArg.weights
            total == PickRunning(w, Len(w))
            stops == {i \in 1..Len(w) :
                         fnArg.k * total <= RandDenom * PickRunning(w, i)}
        IN /\ stops # {}
           /\ \E i \in stops :
                 /\ \A j \in stops : i <= j
                 /\ fnRes.out = fnArg.items[i]

C30_Witness ==
    /\ fnRes # Null
    /\ Len(fnArg.weights) = 3
    /\ fnArg.weights[1] > 0
    /\ fnArg.weights[2] < 0
    /\ fnArg.weights[3] > 0
    /\ fnArg.k > 0
    /\ fnRes.out = fnArg.items[3]

-----------------------------------------------------------------------------
\* The store: cooldowns and selection across pickAction and tick.

\* an event with no unexpired entry in the event map cds at time t
EventReady(e, cds, t) ==
    e.id \notin DOMAIN cds.events \/ t >= cds.events[e.id]

\* C31: an event is not selected while its cooldown runs: the event a
\* non-ending pickAction stores is not one whose stored expiry lies after the
\* now of the call (so never the event just acted on, when its cooldown is
\* > 0), and the event a tick's retry stores is not one whose stored expiry
\* lies after the tick's clock.
C31_NoSelectionOnCooldown ==
    [][ /\ (picks' # picks /\ log' # log /\ currentEvent' # Null)
            => EventReady(currentEvent', cooldowns', now)
        /\ (now' # now /\ currentEvent = Null /\ currentEvent' # Null)
            => EventReady(currentEvent', cooldowns', now') ]_vars

C31_Witness ==
    /\ phase = "playing"
    /\ Len(log) >= 2
    /\ currentEvent # Null
    /\ currentEvent.id = "port-open"
    /\ "standup" \in DOMAIN cooldowns.events
    /\ now < cooldowns.events["standup"]
    /\ evStandup.cooldown > 0
    /\ evaluateConditions(gameState, evStandup.conditions)


-----------------------------------------------------------------------------
\* The remaining-cooldown reads as functions of their arguments.

\* latest query time of the remaining-cooldown reads, in steps of RemStepMs
RemMaxSteps == 20

\* spacing of the query times, in milliseconds
RemStepMs == 500

\* the tables of SpecCooldown, and one whose maps disagree on an id
RemTables ==
    CdTables \cup {[events |-> ("a" :> 1000), actions |-> ("a" :> 3000)]}

RemInputs ==
    {[cds |-> c, id |-> id, t |-> n * RemStepMs] :
        c \in RemTables, id \in {"a", "b", "c", "none"}, n \in 0..RemMaxSteps}

InitRemaining == StoreInit /\ fnArg \in RemInputs /\ fnRes = Null

CallRemaining ==
    /\ fnRes = Null
    /\ fnRes' = [event |-> getEventCooldownRemaining(fnArg.cds, fnArg.id, fnArg.t),
                 action |-> getActionCooldownRemaining(fnArg.cds, fnArg.id, fnArg.t)]
    /\ UNCHANGED <<store, now, fetching, picks, fnArg>>

SpecRemaining == InitRemaining /\ [][CallRemaining]_vars

\* C33: the remaining-cooldown reads agree with the on-cooldown predicates:
\* each returns 0 exactly when the id is not on cooldown at now (no entry, or
\* now >= expiry), and otherwise (expiry - now) / 1000, which is > 0.
C33_RemainingAgreesWithPredicate ==
    fnRes # Null =>
        /\ (fnRes.event.num = 0)
              <=> ~isEventOnCooldown(fnArg.cds, fnArg.id, fnArg.t)
        /\ (fnRes.action.num = 0)
              <=> ~isActionOnCooldown(fnArg.cds, fnArg.id, fnArg.t)
        /\ (fnRes.event.num = 0)
              <=> (fnArg.id \notin DOMAIN fnArg.cds.events
                      \/ fnArg.t >= fnArg.cds.events[fnArg.id])
        /\ (fnRes.action.num = 0)
              <=> (fnArg.id \notin DOMAIN fnArg.cds.actions
                      \/ fnArg.t >= fnArg.cds.actions[fnArg.id])
        /\ fnRes.event.num # 0 =>
              /\ fnRes.event.num = fnArg.cds.events[fnArg.id] - fnArg.t
              /\ fnRes.event.den = 1000
              /\ fnRes.event.num > 0
        /\ fnRes.action.num # 0 =>
              /\ fnRes.action.num = fnArg.cds.actions[fnArg.id] - fnArg.t
              /\ fnRes.action.den = 1000
              /\ fnRes.action.num > 0

C33_Witness ==
    /\ fnRes # Null
    /\ fnArg.id \in DOMAIN fnArg.cds.events
    /\ fnArg.id \in DOMAIN fnArg.cds.actions
    /\ fnArg.t > 0
    /\ fnRes.event.num = 0
    /\ fnRes.action.num > 0
    /\ fnRes.action.num < fnArg.cds.actions[fnArg.id]

-----------------------------------------------------------------------------
\* The store: what a pickAction selects, and how runs end.

\* C34: a pickAction that does not end the run stores, as currentEvent, a
\* result of the selection made against the state and the cooldown table it
\* stores in the same step, at the now of the call, null included (then the
\* log gains only the action's line); a pickAction that ends the run leaves
\* currentEvent and the log as they were.
C34_PickSelectsAfterApplying ==
    [][ picks' # picks =>
            \/ /\ outcome' # NoOutcome
               /\ phase' = "over"
               /\ log' = log
               /\ currentEvent' = currentEvent
            \/ /\ log' # log
               /\ outcome' = outcome
               /\ phase' = phase
               /\ \E k \in 0..(RandDenom - 1) :
                     currentEvent' = selectNextEvent(allEvents, gameState',
                                         cooldowns', envModifiers, now, k)
               /\ currentEvent' = Null =>
                     /\ Len(log') = Len(log) + 1
                     /\ \A e \in {allEvents[i] : i \in 1..Len(allEvents)} :
                           ~(evaluateConditions(gameState', e.conditions)
                                /\ EventReady(e, cooldowns', now)) ]_vars

C34_Witness ==
    /\ phase = "playing"
    /\ currentEvent = Null
    /\ log # <<>>
    /\ \E i \in 1..Len(allEvents) : \E j \in 1..Len(allEvents[i].actions) :
          Head(log) = "> " \o allEvents[i].actions[j].label


\* C35: in every reachable state of the store, phase = over exactly when
\* outcome is non-null.
C35_OverIffOutcome ==
    (phase = "over") <=> (outcome # NoOutcome)

C35_Witness ==
    /\ phase = "playing"
    /\ outcome = NoOutcome
    /\ picks > 0
    /\ cooldowns = emptyCooldowns
    /\ gameState.score = 0
    /\ fetching = 0
    /\ now > 0


\* C36: whenever phase is playing no state-loss condition holds on
\* gameState: timeLeft > 0, stress < 100 and privilege > 0.
C36_PlayingHasNoStateLoss ==
    phase = "playing" =>
        /\ gameState.timeLeft > 0
        /\ gameState.stress < 100
        /\ gameState.privilege > 0

C36_Witness ==
    /\ phase = "playing"
    /\ Len(log) >= 2
    /\ gameState.timeLeft = 1
    /\ gameState.privilege > 1
    /\ now > 0


\* C37: a run ends by time when the player stops acting: a tick while
\* playing with timeLeft = 1 ends the run with outcome time, and a tick
\* while playing with timeLeft = n > 1 leaves the run playing with
\* timeLeft = n - 1; so from timeLeft = n exactly n ticks lead to phase over
\* with outcome time.
C37_TicksRunOutTheClock ==
    [][ (now' # now /\ phase = "playing") =>
            IF gameState.timeLeft = 1
            THEN /\ phase' = "over"
                 /\ outcome' = "time"
                 /\ gameState'.timeLeft = 0
            ELSE /\ gameState.timeLeft > 1
                 /\ phase' = "playing"
                 /\ outcome' = NoOutcome
                 /\ gameState'.timeLeft = gameState.timeLeft - 1 ]_vars

C37_Witness ==
    /\ phase = "over"
    /\ outcome = "time"
    /\ gameState.timeLeft = 0
    /\ picks = 1
    /\ "standup-skip" \in DOMAIN cooldowns.actions
    /\ cooldowns.actions["standup-skip"] + 2 * TickMs
          = now + evStandup.actions[1].cooldown * 1000
    /\ INITIAL_STATE.timeLeft + evStandup.actions[1].effects[1].delta = 2


\* C38: a tick ends a run only by time exhaustion: whenever a tick takes the
\* phase from playing to over, the outcome it records is time.
C38_TickEndsOnlyByTime ==
    [][ (now' # now /\ phase = "playing" /\ phase' = "over")
            => outcome' = "time" ]_vars

C38_Witness ==
    /\ phase = "over"
    /\ outcome = "time"
    /\ currentEvent # Null
    /\ currentEvent.terminal
    /\ currentEvent.terminalOutcome = "win"
    /\ gameState.stress < 100
    /\ gameState.privilege > 0


\* C39: whenever phase is playing and an event is presented, every condition
\* of that event holds on the current gameState.
C39_PresentedEventConditionsHold ==
    (phase = "playing" /\ currentEvent # Null) =>
        \A i \in 1..Len(currentEvent.conditions) :
            evaluateCondition(gameState, currentEvent.conditions[i])


\* C39, amended: an event is gated by its conditions when it is selected,
\* and afterwards only its conditions on timeLeft can stop holding.  Every
\* step that stores a selection (the set of startRun, a non-ending
\* pickAction, the retry of a tick) stores either null or an event all of
\* whose conditions hold on the gameState stored with it; and whenever phase
\* is playing and an event is presented, each of its conditions on a field
\* other than timeLeft holds on the current gameState.
C39_ConditionsHoldWhenSelected ==
    /\ [](  (phase = "playing" /\ currentEvent # Null) =>
               \A i \in 1..Len(currentEvent.conditions) :
                   currentEvent.conditions[i].param # "timeLeft"
                       => evaluateCondition(gameState, currentEvent.conditions[i]))
    /\ [][ ( /\ \/ fetching' = fetching - 1
                \/ picks' # picks /\ log' # log
                \/ now' # now /\ phase = "playing" /\ currentEvent = Null
             /\ currentEvent' # Null )
           => \A i \in 1..Len(currentEvent'.conditions) :
                  evaluateCondition(gameState', currentEvent'.conditions[i]) ]_vars

C39_Witness ==
    /\ phase = "playing"
    /\ currentEvent # Null
    /\ currentEvent.id = "audit"
    /\ log = <<currentEvent.title>>
    /\ gameState.timeLeft < INITIAL_STATE.timeLeft
    /\ ~evaluateConditions(gameState, currentEvent.conditions)

-----------------------------------------------------------------------------
\* The store driven through the view: startRun is bound to the buttons of the
\* start screen and of the outcome screen, which are rendered only while phase
\* is idle or over; a click does not wait for an earlier startRun to finish.

\* onStart / onRestart: a start request, issued while no run is playing
ViewStartRunCall == phase # "playing" /\ StartRunCall

NextView ==
    \/ ViewStartRunCall
    \/ StartRunFetched
    \/ StartRunFallback
    \/ Pick
    \/ Tick

SpecView == Init /\ [][NextView]_vars

\* C40: a run in progress is not reset by a start request issued before it
\* began: while phase is playing, a startRun that completes (its request was
\* issued on the start or outcome screen, so before this run began) leaves
\* the run's gameState, cooldowns, envModifiers and currentEvent as they are.
C40_RunNotResetByEarlierRequest ==
    [][ (phase = "playing" /\ fetching' = fetching - 1) =>
            /\ gameState' = gameState
            /\ cooldowns' = cooldowns
            /\ envModifiers' = envModifiers
            /\ currentEvent' = currentEvent ]_vars

=============================================================================
